---------------------------- MODULE Spec2Model ----------------------------
(***************************************************************************)
(* The workflow execution engine of backend/app/services/                  *)
(* workflow_executor.py: graph validation, execution-order resolution,     *)
(* the per-type component handlers and the execute_workflow driver.        *)
(*                                                                         *)
(* Conventions.                                                            *)
(*   - An Optional[T] value is a sequence of length 0 (None) or 1.         *)
(*   - A Python dict with string keys is a record; "k in d" is             *)
(*     "k" \in DOMAIN d.  The insertion-ordered dict                       *)
(*     context.intermediate_results is a sequence of [key, value] pairs.   *)
(*   - Floats are hundredths (0.3 is 30).                                  *)
(*   - An exception is a record [cls, msg, detail]; str(e) is its msg and  *)
(*     detail (the formatted arguments of the message).                   *)
(*   - Wall-clock values (start_time, timestamp, execution_time) are not   *)
(*     modelled.                                                           *)
(***************************************************************************)
EXTENDS Naturals, Sequences, FiniteSets, TLC

VARIABLES
    nodes,                  \* execute_workflow's nodes argument
    edges,                  \* execute_workflow's edges argument
    input_data,             \* execute_workflow's input_data argument
    pc,                     \* position of the execute_workflow coroutine
    validation,             \* the WorkflowValidation of line 195
    pos,                    \* index into execution_order of the loop of line 215
    intermediate_results,   \* context.intermediate_results
    execution_log,          \* context.execution_log
    ret,                    \* what execute_workflow gave its caller
    dispatched,             \* history: node ids handed to _execute_component
    calls,                  \* history: capability calls issued, in order
    searchOutcomes,         \* history: how each vector search ended
    hashseed,               \* the interpreter process's string hashing: the order
                            \* in which a set of type names is iterated
    other                   \* the other execute_workflow coroutine of the event
                            \* loop, as it stood when it last gave up control

vars == <<nodes, edges, input_data, pc, validation, pos, intermediate_results,
          execution_log, ret, dispatched, calls, searchOutcomes, hashseed, other>>

----------------------------------------------------------------------------
(* Bounds of the model. *)

MaxNodes == 4
MaxEdges == 2
MaxPrior == 3
MaxValidateNodes == 2

----------------------------------------------------------------------------
(* Data model: schemas/workflow.py and the ComponentType enum. *)

USER_QUERY == "input"
KNOWLEDGE_BASE == "knowledge"
LLM_ENGINE == "llm"
OUTPUT == "output"

\* The fields a NodeData object has.  Reading any other attribute of a
\* pydantic model raises AttributeError.
NodeDataFields ==
    {"label", "placeholder", "model", "collection", "topK", "threshold",
     "format", "streaming", "use_web_search", "webSearchResults"}

\* NodeData's defaults.
DefaultData ==
    [model |-> <<>>, collection |-> <<>>, topK |-> <<5>>, threshold |-> <<70>>,
     format |-> <<"text">>, use_web_search |-> <<FALSE>>]

WorkflowNode(id, type, data) == [id |-> id, type |-> type, data |-> data]

WorkflowEdge(source, target) == [source |-> source, target |-> target]

\* Python truthiness of an Optional[str] and of an Optional[int].
TruthyStr(opt) == opt # <<>> /\ opt[1] # ""

TruthyInt(opt) == opt # <<>> /\ opt[1] # 0

----------------------------------------------------------------------------
(* Sequence helpers. *)

RECURSIVE Flatten(_)
Flatten(ss) == IF ss = <<>> THEN <<>> ELSE Head(ss) \o Flatten(Tail(ss))

SeqRange(s) == {s[i] : i \in DOMAIN s}

NodeIdSeq(ns) == [i \in DOMAIN ns |-> ns[i].id]

NodeIdSet(ns) == {ns[i].id : i \in DOMAIN ns}

----------------------------------------------------------------------------
(* _determine_execution_order *)

\* graph[id] of lines 99-102: the targets of the edges whose source is id, in
\* edge-listing order; an edge whose source is not a node id is dropped, its
\* target is not looked at.  graph.get(id, []) of line 140 for the others.
Neighbors(ns, es, id) ==
    IF id \in NodeIdSet(ns)
    THEN LET out == SelectSeq(es, LAMBDA e : e.source = id)
         IN  [i \in DOMAIN out |-> out[i].target]
    ELSE <<>>

\* Lines 108-113: the first node in listing order whose type is "input".
InputNodes(ns) == SelectSeq(ns, LAMBDA n : n.type = USER_QUERY)

\* The loop without the check of lines 131-133: a dequeued id is appended
\* whether or not it was visited.
RECURSIVE BFSWithoutVisitedCheck(_, _, _, _, _)
BFSWithoutVisitedCheck(ns, es, queue, visited, order) ==
    IF queue = <<>> THEN [visited |-> visited, order |-> order]
    ELSE LET current_node == Head(queue)
             visited2 == visited \cup {current_node}
             nb == SelectSeq(Neighbors(ns, es, current_node), LAMBDA t : t \notin visited2)
         IN  BFSWithoutVisitedCheck(ns, es, Tail(queue) \o nb, visited2,
                                    Append(order, current_node))

\* The while loop of lines 128-143.
RECURSIVE BFS(_, _, _, _, _)
BFS(ns, es, queue, visited, order) ==
    IF queue = <<>> THEN [visited |-> visited, order |-> order]
    ELSE LET current_node == Head(queue)
             rest == Tail(queue)
         IN  IF current_node \in visited
             THEN BFS(ns, es, rest, visited, order)
             ELSE LET visited2 == visited \cup {current_node}
                      nb == SelectSeq(Neighbors(ns, es, current_node),
                                      LAMBDA t : t \notin visited2)
                  IN  BFS(ns, es, rest \o nb, visited2, Append(order, current_node))

\* A resolver that does not look at the edges: the nodes as listed.
ListingOrder(ns, es) == NodeIdSeq(ns)

\* A resolver that puts the nodes the traversal did not reach first.
DetermineExecutionOrderUnreachedFirst(ns, es) ==
    IF InputNodes(ns) = <<>> THEN <<>>
    ELSE LET input_node == Head(InputNodes(ns))
             b == BFS(ns, es, <<input_node.id>>, {}, <<>>)
             unreached == SelectSeq(NodeIdSeq(ns), LAMBDA id : id \notin b.visited)
         IN  unreached \o b.order

DetermineExecutionOrder(ns, es) ==
    IF InputNodes(ns) = <<>> THEN <<>>
    ELSE LET input_node == Head(InputNodes(ns))
             b == BFS(ns, es, <<input_node.id>>, {}, <<>>)
             \* lines 146-149: the nodes not reached, in listing order
             unreached == SelectSeq(NodeIdSeq(ns), LAMBDA id : id \notin b.visited)
         IN  b.order \o unreached

----------------------------------------------------------------------------
(* Exceptions and handler outcomes. *)

Exc(cls, msg, detail) == [cls |-> cls, msg |-> msg, detail |-> detail]

\* str(e)
Str(e) == [msg |-> e.msg, detail |-> e.detail]

Return(value) == [kind |-> "return", value |-> value]

Raise(e) == [kind |-> "raise", exc |-> e]

\* The handler reached an awaited capability call.
Await(call) == [kind |-> "call", call |-> call]

----------------------------------------------------------------------------
(* validate_workflow *)

\* A validation message: its fixed text and what is formatted into it, in the
\* order it appears in the text.
Message(text, args) == [msg |-> text, args |-> args]

\* Iterating a set of strings (', '.join(missing), line 55): the order is the
\* one the process's string hashing gives.
IterationOrder(set) == SelectSeq(hashseed, LAMBDA t : t \in set)

\* A coverage rule that does not ask for an input node.
RequiredTypesWithoutInput == {LLM_ENGINE, OUTPUT}

RequiredTypes == {USER_QUERY, LLM_ENGINE, OUTPUT}

\* A configuration check that does not look at topK.
ValidateNodeConfigWithoutTopK(node) ==
    IF node.type = LLM_ENGINE
    THEN IF ~TruthyStr(node.data.model)
         THEN <<Message("LLM Engine node: Model is required", <<node.id>>)>>
         ELSE <<>>
    ELSE IF node.type = KNOWLEDGE_BASE
    THEN IF ~TruthyStr(node.data.collection)
         THEN <<Message("Knowledge Base node: Collection name is required", <<node.id>>)>>
         ELSE <<>>
    ELSE <<>>

\* _validate_node_config, lines 155-169
ValidateNodeConfig(node) ==
    IF node.type = LLM_ENGINE
    THEN IF ~TruthyStr(node.data.model)
         THEN <<Message("LLM Engine node: Model is required", <<node.id>>)>>
         ELSE <<>>
    ELSE IF node.type = KNOWLEDGE_BASE
    THEN (IF ~TruthyStr(node.data.collection)
          THEN <<Message("Knowledge Base node: Collection name is required", <<node.id>>)>>
          ELSE <<>>)
         \o
         (IF node.data.topK # <<>> /\ (node.data.topK[1] < 1 \/ node.data.topK[1] > 50)
          THEN <<Message("Knowledge Base node: TopK must be between 1 and 50", <<node.id>>)>>
          ELSE <<>>)
    ELSE <<>>

OutputNodes(ns) == SelectSeq(ns, LAMBDA n : n.type = OUTPUT)

\* Cardinality without the coverage rule.
StructuralErrorsWithoutCoverage(ns) ==
    (IF Len(InputNodes(ns)) > 1
     THEN <<Message("Only one User Query component is allowed", <<>>)>> ELSE <<>>)
    \o
    (IF Len(SelectSeq(ns, LAMBDA n : n.type = OUTPUT)) > 1
     THEN <<Message("Only one Output component is allowed", <<>>)>> ELSE <<>>)

\* Coverage and cardinality without the check of the output nodes.
StructuralErrorsWithoutOutputCheck(ns) ==
    LET node_types == {ns[i].type : i \in DOMAIN ns}
    IN  (IF RequiredTypes \subseteq node_types THEN <<>>
         ELSE <<Message("Missing required components",
                        IterationOrder(RequiredTypes \ node_types))>>)
        \o
        (IF Len(InputNodes(ns)) > 1
         THEN <<Message("Only one User Query component is allowed", <<>>)>> ELSE <<>>)

\* Lines 49-65: coverage and cardinality.
StructuralErrors(ns) ==
    LET node_types == {ns[i].type : i \in DOMAIN ns}
    IN  (IF RequiredTypes \subseteq node_types THEN <<>>
         ELSE <<Message("Missing required components",
                      IterationOrder(RequiredTypes \ node_types))>>)
        \o
        (IF Len(InputNodes(ns)) > 1
         THEN <<Message("Only one User Query component is allowed", <<>>)>> ELSE <<>>)
        \o
        (IF Len(OutputNodes(ns)) > 1
         THEN <<Message("Only one Output component is allowed", <<>>)>> ELSE <<>>)

\* A plain dict where a schema object is expected: what the database columns
\* hold before the routes turn them into WorkflowNode and WorkflowEdge.  It
\* has none of the attributes of the schema object.
Dict(d) == [dict |-> d]

HasAttr(obj, name) == name \in DOMAIN obj

NoAttribute(name) == Exc("AttributeError", "'dict' object has no attribute", <<name>>)

\* The try block, lines 48-78: node.type is read of every node on line 50;
\* edge.source is read of every edge on line 101, when the resolver is run.
ValidateTry(ns, es) ==
    IF \E i \in DOMAIN ns : ~HasAttr(ns[i], "type")
    THEN Raise(NoAttribute("type"))
    ELSE LET structural == StructuralErrors(ns)
         IN  IF structural = <<>> /\ \E i \in DOMAIN es : ~HasAttr(es[i], "source")
             THEN Raise(NoAttribute("source"))
             ELSE LET \* lines 68-71
                      execution_order == IF structural = <<>>
                                         THEN DetermineExecutionOrder(ns, es) ELSE <<>>
                      ordering == IF structural = <<>> /\ execution_order = <<>>
                                  THEN <<Message("Invalid workflow connections - cannot determine execution order", <<>>)>>
                                  ELSE <<>>
                      \* lines 74-76
                      config == Flatten([i \in DOMAIN ns |-> ValidateNodeConfig(ns[i])])
                      errors == structural \o ordering \o config
                  IN  Return([is_valid |-> errors = <<>>, errors |-> errors,
                              warnings |-> <<>>, execution_order |-> execution_order])

\* A validator without the handler of lines 80-83: the exception leaves it.
ValidateWorkflowWithoutHandler(ns, es) ==
    LET out == ValidateTry(ns, es)
    IN  IF out.kind = "raise"
        THEN [is_valid |-> FALSE, errors |-> <<>>, warnings |-> <<>>,
              execution_order |-> <<>>, raised |-> out.exc]
        ELSE out.value

\* validate_workflow: the try block, and the handler of lines 80-83 for
\* whatever it raises.  Both reads that can raise come before any error is
\* appended and before execution_order is assigned.
ValidateWorkflow(ns, es) ==
    LET out == ValidateTry(ns, es)
    IN  IF out.kind = "raise"
        THEN [is_valid |-> FALSE,
              errors |-> <<Message("Validation error", <<Str(out.exc)>>)>>,
              warnings |-> <<>>, execution_order |-> <<>>]
        ELSE out.value


----------------------------------------------------------------------------
(* The execution context. *)

\* dict.get(key, default)
Get(d, key, default) == IF key \in DOMAIN d THEN d[key] ELSE default

\* A store that keeps only the newest result.
DictSetDroppingOthers(d, key, value) == <<[key |-> key, value |-> value]>>

\* intermediate_results[key] = value: a new key is appended, an existing key
\* keeps its place.
DictSet(d, key, value) ==
    IF \E i \in DOMAIN d : d[i].key = key
    THEN [i \in DOMAIN d |-> IF d[i].key = key THEN [key |-> key, value |-> value] ELSE d[i]]
    ELSE Append(d, [key |-> key, value |-> value])

\* intermediate_results.values()
Values(d) == [i \in DOMAIN d |-> d[i].value]

\* result.get("type") == tag
HasType(result, tag) == Get(result, "type", "") = tag

\* The scan without its break: None or the last.
FirstTaggedWithoutBreak(values, tag) ==
    LET hits == SelectSeq(values, LAMBDA r : HasType(r, tag))
    IN  IF hits = <<>> THEN <<>> ELSE <<hits[Len(hits)]>>

\* "for result in values: if tagged: found = result; break": None or the first.
FirstTagged(values, tag) ==
    LET hits == SelectSeq(values, LAMBDA r : HasType(r, tag))
    IN  IF hits = <<>> THEN <<>> ELSE <<hits[1]>>

\* "for result in values: if tagged: found = result": None or the last.
LastTagged(values, tag) ==
    LET hits == SelectSeq(values, LAMBDA r : HasType(r, tag))
    IN  IF hits = <<>> THEN <<>> ELSE <<hits[Len(hits)]>>

\* Lines 299-304 and 345-350: the query of the input payload, when the scan
\* found no user_query result.
QueryFallback(found, payload) ==
    IF found = <<>> /\ Get(payload, "query", "") # ""
    THEN <<[type |-> "user_query", query |-> payload.query]>>
    ELSE found

----------------------------------------------------------------------------
(* The component handlers: what _execute_component(node, context) does up *)
(* to its first awaited capability call.                                  *)

\* An input component without the check of lines 282-283.
ExecuteUserQueryWithoutCheck(node, payload, results) ==
    Return([query |-> Get(payload, "query", ""), type |-> "user_query"])

\* _execute_user_query
ExecuteUserQueryOutcome(node, payload, results) ==
    LET query == Get(payload, "query", "")
    IN  IF query = ""
        THEN Raise(Exc("ValueError", "No query provided", <<>>))
        ELSE Return([query |-> query, type |-> "user_query"])

\* A search call that passes the threshold configured on the node.
SearchCallNodeThreshold(node, query_data) ==
    [capability |-> "vector_search",
     query |-> query_data.query,
     collection_name |-> IF TruthyStr(node.data.collection)
                         THEN node.data.collection[1] ELSE "default",
     top_k |-> IF TruthyInt(node.data.topK) THEN node.data.topK[1] ELSE 5,
     threshold |-> IF node.data.threshold # <<>> THEN node.data.threshold[1] ELSE 30]

\* The arguments of the vector_service.search call of lines 318-323.
SearchCall(node, query_data) ==
    [capability |-> "vector_search",
     query |-> query_data.query,
     collection_name |-> IF TruthyStr(node.data.collection)
                         THEN node.data.collection[1] ELSE "default",
     top_k |-> IF TruthyInt(node.data.topK) THEN node.data.topK[1] ELSE 5,
     threshold |-> 30]

\* A knowledge component that takes its query from the results of the nodes
\* the edges declare as its predecessors.
ExecuteKnowledgeBaseFromPredecessor(node, payload, results) ==
    LET declared == {edges[i].source : i \in {j \in DOMAIN edges : edges[j].target = node.id}}
        upstream == SelectSeq(results, LAMBDA kv : kv.key \in declared)
        query_data == FirstTagged(Values(upstream), "user_query")
    IN  IF query_data = <<>>
        THEN Return([type |-> "knowledge_base", results |-> <<>>, query |-> <<>>,
                     status |-> "skipped"])
        ELSE Await(SearchCall(node, query_data[1]))

\* A knowledge component that treats the missing query as the llm component
\* does.
ExecuteKnowledgeBaseRaising(node, payload, results) ==
    LET query_data == QueryFallback(FirstTagged(Values(results), "user_query"), payload)
    IN  IF query_data = <<>>
        THEN Raise(Exc("ValueError", "No query found for knowledge base search", <<>>))
        ELSE Await(SearchCall(node, query_data[1]))

\* _execute_knowledge_base, lines 292-323
ExecuteKnowledgeBaseOutcome(node, payload, results) ==
    LET query_data == QueryFallback(FirstTagged(Values(results), "user_query"), payload)
    IN  IF query_data = <<>>
        THEN Return([type |-> "knowledge_base", results |-> <<>>, query |-> <<>>,
                     status |-> "skipped"])
        ELSE Await(SearchCall(node, query_data[1]))

\* _execute_knowledge_base, lines 324-330: after the search has returned.
KnowledgeBaseResult(call, search_results) ==
    [query |-> call.query, results |-> search_results, type |-> "knowledge_base"]

\* The arguments of the llm_service.generate_response call of lines 375-381.
GenerateCall(node, query_data, context_text) ==
    [capability |-> "generate_response",
     query |-> query_data.query,
     context |-> context_text,
     model |-> "gpt-5-nano-2025-08-07",
     max_tokens |-> 1000,
     use_web_search |-> node.data.use_web_search]

\* An llm component without the check of lines 352-353: query_data is None
\* where line 376 subscripts it.
ExecuteLLMEngineWithoutQueryCheck(node, payload, results) ==
    LET query_data == QueryFallback(LastTagged(Values(results), "user_query"), payload)
    IN  IF query_data = <<>>
        THEN Raise(Exc("TypeError", "'NoneType' object is not subscriptable", <<>>))
        ELSE Raise(Exc("AttributeError", "'NodeData' object has no attribute", <<"maxTokens">>))

\* _execute_llm_engine, lines 334-381.  The arguments of generate_response are
\* evaluated before the call: node.data.maxTokens is read on line 379, and
\* NodeData declares no such field, so the read raises AttributeError and
\* generate_response is not called.
ExecuteLLMEngineOutcome(node, payload, results) ==
    LET query_data == QueryFallback(LastTagged(Values(results), "user_query"), payload)
        knowledge_data == LastTagged(Values(results), "knowledge_base")
        \* one "Document: ... Content: ..." block per retrieved document
        context_text == IF knowledge_data # <<>>
                        THEN [i \in DOMAIN knowledge_data[1].results |->
                                 knowledge_data[1].results[i].content]
                        ELSE <<>>
    IN  IF query_data = <<>>
        THEN Raise(Exc("ValueError", "No query found for LLM processing", <<>>))
        ELSE IF "maxTokens" \notin NodeDataFields
        THEN Raise(Exc("AttributeError", "'NodeData' object has no attribute", <<"maxTokens">>))
        ELSE Await(GenerateCall(node, query_data[1], context_text))

\* An output component that adds the metadata whatever the format.
ExecuteOutputAlwaysMetadata(node, payload, results) ==
    LET llm_response == FirstTagged(Values(results), "llm_response")
    IN  IF llm_response = <<>>
        THEN Raise(Exc("ValueError", "No LLM response found for output", <<>>))
        ELSE Return([response |-> llm_response[1].response,
                     metadata |-> [query |-> llm_response[1].query,
                                   context_used |-> llm_response[1].context_used,
                                   format |-> "json"],
                     type |-> "output"])

\* _execute_output
ExecuteOutputOutcome(node, payload, results) ==
    LET llm_response == FirstTagged(Values(results), "llm_response")
        output_format == IF TruthyStr(node.data.format) THEN node.data.format[1] ELSE "text"
    IN  IF llm_response = <<>>
        THEN Raise(Exc("ValueError", "No LLM response found for output", <<>>))
        ELSE IF output_format = "json"
        THEN Return([response |-> llm_response[1].response,
                     metadata |-> [query |-> llm_response[1].query,
                                   context_used |-> llm_response[1].context_used,
                                   format |-> "json"],
                     type |-> "output"])
        ELSE Return([response |-> llm_response[1].response, type |-> "output"])

\* _execute_component, lines 263-273; an exception of a handler is re-raised
\* unchanged (lines 275-277).
ExecuteComponentOutcome(node, payload, results) ==
    IF node.type = USER_QUERY THEN ExecuteUserQueryOutcome(node, payload, results)
    ELSE IF node.type = KNOWLEDGE_BASE THEN ExecuteKnowledgeBaseOutcome(node, payload, results)
    ELSE IF node.type = LLM_ENGINE THEN ExecuteLLMEngineOutcome(node, payload, results)
    ELSE IF node.type = OUTPUT THEN ExecuteOutputOutcome(node, payload, results)
    ELSE Raise(Exc("ValueError", "Unknown component type", <<node.type>>))

----------------------------------------------------------------------------
(* VectorService.search, vector_service.py lines 110-164. *)

\* What the ChromaDB side does on one call: no client was initialised, the
\* collection is missing, collection.query raises, or it answers with hits
\* (nearest first).
Backend(state, hits) == [state |-> state, hits |-> hits]

\* Lines 141-157: the hits whose similarity, 1 - distance, reaches the
\* threshold.
FormatResults(hits, threshold) ==
    LET passed == SelectSeq(hits, LAMBDA h : 100 - h.distance >= threshold)
    IN  [i \in DOMAIN passed |->
            [id |-> passed[i].id, content |-> passed[i].content,
             similarity_score |-> 100 - passed[i].distance,
             distance |-> passed[i].distance]]

\* A search without the handler of lines 162-164.
VectorSearchRaising(backend, call) ==
    IF backend.state = "ok"
    THEN LET n == IF Len(backend.hits) < call.top_k THEN Len(backend.hits) ELSE call.top_k
         IN  Return(FormatResults(SubSeq(backend.hits, 1, n), call.threshold))
    ELSE IF backend.state = "no_collection" THEN Return(<<>>)
    ELSE Raise(Exc("ValueError", "vector search failed", <<backend.state>>))

\* search(): every failure inside the try block (line 121, line 131) ends in
\* the handler of lines 162-164, which returns [].
VectorSearch(backend, call) ==
    IF backend.state = "ok"
    THEN LET n == IF Len(backend.hits) < call.top_k THEN Len(backend.hits) ELSE call.top_k
         IN  Return(FormatResults(SubSeq(backend.hits, 1, n), call.threshold))
    ELSE Return(<<>>)

----------------------------------------------------------------------------
(* execute_workflow *)

NotReturned == [status |-> "none"]

NoValidation ==
    [is_valid |-> FALSE, errors |-> <<>>, warnings |-> <<>>, execution_order |-> <<>>]

\* A handler that names one class in place of "except Exception".
CaughtClassesValueErrorOnly == {"ValueError"}

\* The exception classes that "except Exception" on line 244 catches, among
\* those raised inside the try block.
CaughtClasses == {"ValueError", "KeyError", "AttributeError", "TypeError"}

\* Lines 244-259, and the return of lines 233-242.
FailedResult(e, log) ==
    [status |-> "failed", error |-> Str(e),
     execution_log |-> [steps |-> log, total_steps |-> Len(log), error |-> Str(e)]]

CompletedResult(results, log) ==
    [status |-> "completed", output |-> results,
     execution_log |-> [steps |-> log, total_steps |-> Len(log)]]

HandleException(e, log) ==
    IF e.cls \in CaughtClasses THEN FailedResult(e, log)
    ELSE [status |-> "raised", exc |-> e]

\* node_map[node_id], line 203 and 216: the last node listed with that id.
NodeMap(ns, id) ==
    LET hits == SelectSeq(ns, LAMBDA n : n.id = id)
    IN  hits[Len(hits)]

Order == validation.execution_order

CurrentId == Order[pos]

CurrentNode == NodeMap(nodes, CurrentId)

AtNode == pc = "running" /\ pos <= Len(Order)

AtNodeOfType(type) ==
    AtNode /\ CurrentId \in NodeIdSet(nodes) /\ CurrentNode.type = type

\* A handler that also logs a step for the node that failed.
FailLoggingTheStep(e) ==
    /\ pc' = "done"
    /\ execution_log' = Append(execution_log,
                               [node_id |-> CurrentId, node_type |-> "failed",
                                result |-> Str(e)])
    /\ ret' = HandleException(e, execution_log')
    /\ UNCHANGED <<nodes, edges, input_data, validation, pos, intermediate_results>>

\* A handler that starts the run over.
FailAndRetry(e) ==
    /\ pc' = "validating"
    /\ UNCHANGED <<nodes, edges, input_data, validation, pos, intermediate_results,
                   execution_log, ret>>

\* An exception reaches the handler of line 244.
Fail(e) ==
    /\ pc' = "done"
    /\ ret' = HandleException(e, execution_log)
    /\ UNCHANGED <<nodes, edges, input_data, validation, pos, intermediate_results,
                   execution_log>>

\* Lines 219-228, then the next iteration or lines 230-242.
Store(result) ==
    /\ intermediate_results' = DictSet(intermediate_results, CurrentId, result)
    /\ execution_log' = Append(execution_log,
                               [node_id |-> CurrentId, node_type |-> CurrentNode.type,
                                result |-> result])
    /\ pos' = pos + 1
    /\ IF pos + 1 > Len(Order)
       THEN /\ pc' = "done"
            /\ ret' = CompletedResult(intermediate_results', execution_log')
       ELSE /\ pc' = "running"
            /\ ret' = ret
    /\ UNCHANGED <<nodes, edges, input_data, validation>>

\* A driver that issues the capability call and goes on to the next node
\* without awaiting it.
SuspendWithoutWaiting(call) ==
    /\ pc' = "running"
    /\ pos' = pos + 1
    /\ calls' = Append(calls, call)
    /\ UNCHANGED <<nodes, edges, input_data, validation, intermediate_results,
                   execution_log, ret>>

\* The coroutine is suspended in an awaited capability call.
Suspend(call) ==
    /\ pc' = "awaiting"
    /\ calls' = Append(calls, call)
    /\ UNCHANGED <<nodes, edges, input_data, validation, pos, intermediate_results,
                   execution_log, ret>>

\* result = await self._execute_component(node, context), as far as the first
\* await.
Proceed(outcome) ==
    /\ dispatched' = Append(dispatched, CurrentId)
    /\ UNCHANGED <<searchOutcomes, hashseed, other>>
    /\ IF outcome.kind = "return" THEN Store(outcome.value) /\ UNCHANGED calls
       ELSE IF outcome.kind = "raise" THEN Fail(outcome.exc) /\ UNCHANGED calls
       ELSE Suspend(outcome.call)

\* execute_workflow without the check of line 198.
ValidateWithoutCheck ==
    /\ pc = "validating"
    /\ LET v == ValidateWorkflow(nodes, edges)
       IN  /\ validation' = v
           /\ IF v.execution_order = <<>>
              THEN /\ pc' = "done"
                   /\ ret' = CompletedResult(intermediate_results, execution_log)
                   /\ pos' = pos
              ELSE /\ pc' = "running"
                   /\ ret' = ret
                   /\ pos' = 1
    /\ UNCHANGED <<nodes, edges, input_data, intermediate_results, execution_log,
                   dispatched, calls, searchOutcomes, hashseed, other>>

\* Lines 194-203.
Validate ==
    /\ pc = "validating"
    /\ LET v == ValidateWorkflow(nodes, edges)
       IN  /\ validation' = v
           /\ IF ~v.is_valid
              THEN /\ pc' = "done"
                   /\ ret' = HandleException(Exc("ValueError", "Invalid workflow", v.errors),
                                             execution_log)
                   /\ pos' = pos
              ELSE IF v.execution_order = <<>>
              THEN /\ pc' = "done"
                   /\ ret' = CompletedResult(intermediate_results, execution_log)
                   /\ pos' = pos
              ELSE /\ pc' = "running"
                   /\ ret' = ret
                   /\ pos' = 1
    /\ UNCHANGED <<nodes, edges, input_data, intermediate_results, execution_log,
                   dispatched, calls, searchOutcomes, hashseed, other>>

\* Line 216: the id in the order is not the id of a node.
LookupFails ==
    /\ AtNode
    /\ CurrentId \notin NodeIdSet(nodes)
    /\ Fail(Exc("KeyError", "", <<CurrentId>>))
    /\ UNCHANGED <<dispatched, calls, searchOutcomes, hashseed, other>>

ExecuteUserQuery ==
    /\ AtNodeOfType(USER_QUERY)
    /\ Proceed(ExecuteComponentOutcome(CurrentNode, input_data, intermediate_results))

ExecuteKnowledgeBase ==
    /\ AtNodeOfType(KNOWLEDGE_BASE)
    /\ Proceed(ExecuteComponentOutcome(CurrentNode, input_data, intermediate_results))

ExecuteLLMEngine ==
    /\ AtNodeOfType(LLM_ENGINE)
    /\ Proceed(ExecuteComponentOutcome(CurrentNode, input_data, intermediate_results))

ExecuteOutput ==
    /\ AtNodeOfType(OUTPUT)
    /\ Proceed(ExecuteComponentOutcome(CurrentNode, input_data, intermediate_results))

ExecuteUnknown ==
    /\ AtNode
    /\ CurrentId \in NodeIdSet(nodes)
    /\ CurrentNode.type \notin {USER_QUERY, KNOWLEDGE_BASE, LLM_ENGINE, OUTPUT}
    /\ Proceed(ExecuteComponentOutcome(CurrentNode, input_data, intermediate_results))

\* The hits the vector store may hold: one document close to the query, one
\* far from it.
NearDoc == [id |-> "d1", content |-> "c1", distance |-> 10]

FarDoc == [id |-> "d2", content |-> "c2", distance |-> 80]

Backends ==
    {Backend("no_client", <<>>), Backend("no_collection", <<>>),
     Backend("query_error", <<>>), Backend("ok", <<FarDoc>>),
     Backend("ok", <<NearDoc, FarDoc>>)}

\* The awaited vector_service.search of line 318 ends; lines 324-330.
SearchReturns ==
    /\ pc = "awaiting"
    /\ calls[Len(calls)].capability = "vector_search"
    /\ \E backend \in Backends :
          LET out == VectorSearch(backend, calls[Len(calls)])
          IN  /\ searchOutcomes' = Append(searchOutcomes,
                                          [pos |-> pos, state |-> backend.state,
                                           hits |-> backend.hits])
              /\ IF out.kind = "raise" THEN Fail(out.exc)
                 ELSE Store(KnowledgeBaseResult(calls[Len(calls)], out.value))
    /\ UNCHANGED <<dispatched, calls, hashseed, other>>

----------------------------------------------------------------------------
(* Submissions: the graphs and payloads execute_workflow is called with. *)

IdOf == <<"n1", "n2", "n3", "n4", "n5", "n6">>

\* An id no submitted node has.
Ghost == "ghost"

KInput == [type |-> USER_QUERY, data |-> DefaultData]

KKnowledge == [type |-> KNOWLEDGE_BASE, data |-> [DefaultData EXCEPT !.collection = <<"docs">>]]

KKnowledgeNoCollection == [type |-> KNOWLEDGE_BASE, data |-> DefaultData]

KLLM == [type |-> LLM_ENGINE, data |-> [DefaultData EXCEPT !.model = <<"gpt-4o">>]]

KLLMNoModel == [type |-> LLM_ENGINE, data |-> DefaultData]

KOutput == [type |-> OUTPUT, data |-> DefaultData]

KOutputJson == [type |-> OUTPUT, data |-> [DefaultData EXCEPT !.format = <<"json">>]]

KOutputNoFormat == [type |-> OUTPUT, data |-> [DefaultData EXCEPT !.format = <<>>]]

KOutputMarkdown == [type |-> OUTPUT, data |-> [DefaultData EXCEPT !.format = <<"markdown">>]]

KCustom == [type |-> "custom", data |-> DefaultData]

\* Knowledge nodes with a collection and the given topK (None, or a number).
KKnowledgeTopK(topK) ==
    [type |-> KNOWLEDGE_BASE,
     data |-> [DefaultData EXCEPT !.collection = <<"docs">>, !.topK = topK]]

\* A knowledge node with no collection and a topK out of range.
KKnowledgeBare == [type |-> KNOWLEDGE_BASE, data |-> [DefaultData EXCEPT !.topK = <<51>>]]

\* An llm node whose model is the empty string.
KLLMEmptyModel == [type |-> LLM_ENGINE, data |-> [DefaultData EXCEPT !.model = <<"">>]]

\* A knowledge node with a collection and the given threshold (hundredths).
KKnowledgeThreshold(threshold) ==
    [type |-> KNOWLEDGE_BASE,
     data |-> [DefaultData EXCEPT !.collection = <<"docs">>, !.threshold = threshold]]

\* An llm node with the given model identifier.
KLLMModel(model) == [type |-> LLM_ENGINE, data |-> [DefaultData EXCEPT !.model = <<model>>]]

\* An llm node with the web-search flag set.
KLLMWeb ==
    [type |-> LLM_ENGINE,
     data |-> [DefaultData EXCEPT !.model = <<"gpt-4o">>, !.use_web_search = <<TRUE>>]]

\* The topK values at and around the limits of line 167.
TopKValues == {<<>>, <<0>>, <<1>>, <<50>>, <<51>>}

ConfigKinds ==
    {KKnowledgeTopK(t) : t \in TopKValues}
        \cup {KKnowledgeBare, KLLM, KLLMNoModel, KLLMEmptyModel}

NodeKinds == {KInput, KKnowledge, KKnowledgeNoCollection, KLLM, KLLMNoModel, KOutput, KCustom}

\* The nodes of the given kinds, listed in that order, with ids n1, n2, ...
NodesOf(kinds) == [i \in DOMAIN kinds |-> WorkflowNode(IdOf[i], kinds[i].type, kinds[i].data)]

NodeLists == UNION {[1..k -> NodeKinds] : k \in 1..MaxNodes}

\* The node lists whose edges are varied.
BaseNodeLists ==
    {<<KInput, KKnowledge, KLLM, KOutput>>, <<KInput, KLLM, KOutput>>,
     <<KLLM, KOutput, KInput>>}

\* Graphs whose llm node has the web-search flag set.
WebNodeLists == {<<KInput, KLLMWeb, KOutput>>, <<KInput, KKnowledge, KLLMWeb, KOutput>>}

\* Edges between the nodes, to an id that is no node, and from such an id.
EdgeCandidates(ids) ==
    {WorkflowEdge(s, t) : s \in ids, t \in ids \cup {Ghost}}
        \cup {WorkflowEdge(Ghost, t) : t \in ids}

EdgeLists(ids) == UNION {[1..k -> EdgeCandidates(ids)] : k \in 0..MaxEdges}

\* The chain input -> knowledge -> llm -> output, with its nodes and its
\* edges listed in every order.
ChainKinds == <<KInput, KKnowledge, KLLM, KOutput>>

Permuted(s, f) == [i \in DOMAIN s |-> s[f[i]]]

ChainNodeLists == {Permuted(ChainKinds, f) : f \in Permutations(DOMAIN ChainKinds)}

IdOfType(ns, type) == ns[CHOOSE i \in DOMAIN ns : ns[i].type = type].id

ChainEdges(ns) ==
    <<WorkflowEdge(IdOfType(ns, USER_QUERY), IdOfType(ns, KNOWLEDGE_BASE)),
      WorkflowEdge(IdOfType(ns, KNOWLEDGE_BASE), IdOfType(ns, LLM_ENGINE)),
      WorkflowEdge(IdOfType(ns, LLM_ENGINE), IdOfType(ns, OUTPUT))>>

ChainEdgeLists(ns) ==
    {Permuted(ChainEdges(ns), f) : f \in Permutations(DOMAIN ChainEdges(ns))}

\* A few graphs that take the driver through every step it has.
SmallNodeLists == {ChainKinds, <<KInput, KCustom, KLLM, KOutput>>}

\* No edge, one edge, or an edge from each node to the next one listed.
SmallEdgeLists(ns) ==
    {<<>>} \cup {<<e>> : e \in EdgeCandidates(NodeIdSet(ns))}
        \cup {[i \in 1..(Len(ns) - 1) |-> WorkflowEdge(ns[i].id, ns[i + 1].id)]}

Payloads ==
    {[session_id |-> "s"], [query |-> "", session_id |-> "s"],
     [query |-> "what", session_id |-> "s"]}

\* The orders in which a process may iterate the required type names.
HashSeeds ==
    {s \in [1..Cardinality(RequiredTypes) -> RequiredTypes] :
        \A i, j \in DOMAIN s : i # j => s[i] # s[j]}

DefaultSeed == <<USER_QUERY, LLM_ENGINE, OUTPUT>>

\* The seeds that can be told apart on a node list: a set of type names is
\* iterated only for the missing required types (lines 54-55), and its order
\* shows only when two or more are missing.
SeedsOf(ns) ==
    IF Cardinality(RequiredTypes \ {ns[i].type : i \in DOMAIN ns}) >= 2
    THEN HashSeeds ELSE {DefaultSeed}

\* No other coroutine.
NoRun == [pc |-> "none"]

Submit(ns, es, payload) ==
    /\ nodes = ns
    /\ edges = es
    /\ input_data = payload
    /\ pc = "validating"
    /\ validation = NoValidation
    /\ pos = 0
    /\ intermediate_results = <<>>
    /\ execution_log = <<>>
    /\ ret = NotReturned
    /\ dispatched = <<>>
    /\ calls = <<>>
    /\ searchOutcomes = <<>>

Init ==
    /\ \/ \E kinds \in NodeLists, payload \in Payloads :
             Submit(NodesOf(kinds), <<>>, payload)
       \/ \E kinds \in BaseNodeLists, payload \in Payloads :
             \E es \in EdgeLists(NodeIdSet(NodesOf(kinds))) :
                es # <<>> /\ Submit(NodesOf(kinds), es, payload)
       \/ \E kinds \in ChainNodeLists, payload \in Payloads :
             \E es \in ChainEdgeLists(NodesOf(kinds)) :
                Submit(NodesOf(kinds), es, payload)
       \/ \E kinds \in WebNodeLists, payload \in Payloads :
             Submit(NodesOf(kinds), <<>>, payload)
    /\ hashseed \in SeedsOf(nodes)
    /\ other = NoRun

Dispatch ==
    \/ ExecuteUserQuery
    \/ ExecuteKnowledgeBase
    \/ ExecuteLLMEngine
    \/ ExecuteOutput
    \/ ExecuteUnknown
    \/ SearchReturns

Next == Validate \/ LookupFails \/ Dispatch

Spec == Init /\ [][Next]_vars

InitSmall ==
    /\ \E kinds \in SmallNodeLists, payload \in Payloads :
          \E es \in SmallEdgeLists(NodesOf(kinds)) :
             Submit(NodesOf(kinds), es, payload)
    /\ hashseed \in SeedsOf(nodes)
    /\ other = NoRun

\* The event loop runs a coroutine that can run, and every awaited capability
\* call returns.
FairSpec == InitSmall /\ [][Next]_vars /\ WF_vars(Next)

----------------------------------------------------------------------------
(* One component call: _execute_component(node, context) on a context that *)
(* already holds results, followed by the driver's handling of its result. *)

UserQuery1 == [query |-> "what", type |-> "user_query"]

UserQuery2 == [query |-> "why", type |-> "user_query"]

KnowledgeHit ==
    [query |-> "what",
     results |-> <<[id |-> "d1", content |-> "c1", similarity_score |-> 90, distance |-> 10]>>,
     type |-> "knowledge_base"]

KnowledgeSkipped ==
    [type |-> "knowledge_base", results |-> <<>>, query |-> <<>>, status |-> "skipped"]

LLMResponse1 ==
    [query |-> "what", response |-> "answer one", context_used |-> FALSE,
     web_search_used |-> <<FALSE>>, type |-> "llm_response"]

LLMResponse2 ==
    [query |-> "why", response |-> "answer two", context_used |-> TRUE,
     web_search_used |-> <<FALSE>>, type |-> "llm_response"]

PriorValues ==
    {UserQuery1, UserQuery2, KnowledgeHit, KnowledgeSkipped, LLMResponse1, LLMResponse2}

PriorLists == UNION {[1..k -> PriorValues] : k \in 0..MaxPrior}

PriorId == <<"p1", "p2", "p3", "p4", "p5">>

\* The node type whose handler returns a result of that tag.
TypeOfTag(tag) ==
    IF tag = "user_query" THEN USER_QUERY
    ELSE IF tag = "knowledge_base" THEN KNOWLEDGE_BASE
    ELSE LLM_ENGINE

ComponentKinds ==
    {KInput, KKnowledge, KKnowledgeNoCollection, KLLM, KOutput, KOutputJson,
     KOutputNoFormat, KOutputMarkdown, KCustom}

\* The payloads of a component call: also a query with blanks around it.
ComponentPayloads == Payloads \cup {[query |-> " what ", session_id |-> "s"]}

InitComponent ==
    \E prior \in PriorLists, kind \in ComponentKinds, payload \in ComponentPayloads :
       /\ nodes = NodesOf(<<kind>>)
       /\ edges = <<>>
       /\ input_data = payload
       /\ pc = "running"
       /\ validation = [is_valid |-> TRUE, errors |-> <<>>, warnings |-> <<>>,
                        execution_order |-> [i \in DOMAIN prior |-> PriorId[i]] \o <<IdOf[1]>>]
       /\ pos = Len(prior) + 1
       /\ intermediate_results = [i \in DOMAIN prior |-> [key |-> PriorId[i], value |-> prior[i]]]
       /\ execution_log = [i \in DOMAIN prior |->
                              [node_id |-> PriorId[i], node_type |-> TypeOfTag(prior[i].type),
                               result |-> prior[i]]]
       /\ ret = NotReturned
       /\ dispatched = [i \in DOMAIN prior |-> PriorId[i]]
       /\ calls = <<>>
       /\ searchOutcomes = <<>>
       \* no set of type names is iterated in a component call
       /\ hashseed = DefaultSeed
       /\ other = NoRun

SpecComponent == InitComponent /\ [][Dispatch]_vars

----------------------------------------------------------------------------
(* validate_workflow called on its own, as the validate route and the      *)
(* create route call it, once or again, in a server process that may be    *)
(* restarted between two calls.                                            *)

ValidateKindLists ==
    BaseNodeLists \cup UNION {[1..k -> NodeKinds] : k \in 1..MaxValidateNodes}

ValidateEdgeLists ==
    {<<>>, <<WorkflowEdge(IdOf[1], IdOf[2])>>,
     <<WorkflowEdge(IdOf[1], IdOf[2]), WorkflowEdge(IdOf[2], IdOf[3])>>}

\* The list with the element at the given place left as a plain dict; place 0
\* for none.
WithDict(objs, at) == [i \in DOMAIN objs |-> IF i = at THEN Dict(objs[i]) ELSE objs[i]]

\* validate_workflow takes no payload.
NoPayload == <<>>

\* Graphs whose two middle nodes carry every configuration; the first node
\* is the input node or a second output node.
ConfigKindLists ==
    {<<first, a, b, KOutput>> : first \in {KInput, KOutput}, a \in ConfigKinds, b \in ConfigKinds}

InitValidate ==
    /\ \/ \E kinds \in ValidateKindLists, es \in ValidateEdgeLists :
             \E i \in 0..Len(kinds), j \in 0..Len(es) :
                Submit(WithDict(NodesOf(kinds), i), WithDict(es, j), NoPayload)
       \/ \E kinds \in ConfigKindLists :
             Submit(NodesOf(kinds), <<>>, NoPayload)
    /\ hashseed \in HashSeeds
    /\ other = NoRun

\* validation = await executor.validate_workflow(nodes, edges)
ValidateCall ==
    /\ pc \in {"validating", "validated"}
    /\ validation' = ValidateWorkflow(nodes, edges)
    /\ pc' = "validated"
    /\ UNCHANGED <<nodes, edges, input_data, pos, intermediate_results, execution_log,
                   ret, dispatched, calls, searchOutcomes, hashseed, other>>

\* The server process is started anew (uvicorn.run with reload): its string
\* hashing is seeded anew.
Restart ==
    /\ pc = "validated"
    /\ hashseed' \in HashSeeds \ {hashseed}
    /\ UNCHANGED <<nodes, edges, input_data, pc, validation, pos, intermediate_results,
                   execution_log, ret, dispatched, calls, searchOutcomes, other>>

NextValidate == ValidateCall \/ Restart

SpecValidate == InitValidate /\ [][NextValidate]_vars

----------------------------------------------------------------------------
(* Two execute_workflow calls of two requests on one event loop.  The      *)
(* variables hold the coroutine that is running; the other one is kept in  *)
(* "other" as it stood at the await where it gave up control.              *)

ThisRun ==
    [nodes |-> nodes, edges |-> edges, input_data |-> input_data, pc |-> pc,
     validation |-> validation, pos |-> pos,
     intermediate_results |-> intermediate_results, execution_log |-> execution_log,
     ret |-> ret, dispatched |-> dispatched, calls |-> calls,
     searchOutcomes |-> searchOutcomes]

\* A call that has not started: lines 178-186 give it a context of its own.
FreshRun(ns, es, payload) ==
    [nodes |-> ns, edges |-> es, input_data |-> payload, pc |-> "validating",
     validation |-> NoValidation, pos |-> 0, intermediate_results |-> <<>>,
     execution_log |-> <<>>, ret |-> NotReturned, dispatched |-> <<>>,
     calls |-> <<>>, searchOutcomes |-> <<>>]

\* An event loop on which the two calls share one context.
SwitchSharingContext ==
    /\ other.pc \notin {"none", "done"}
    /\ pc \in {"validating", "awaiting", "done"}
    /\ other' = ThisRun
    /\ nodes' = other.nodes
    /\ edges' = other.edges
    /\ input_data' = other.input_data
    /\ pc' = other.pc
    /\ validation' = other.validation
    /\ pos' = other.pos
    /\ ret' = other.ret
    /\ dispatched' = other.dispatched
    /\ calls' = other.calls
    /\ searchOutcomes' = other.searchOutcomes
    /\ UNCHANGED <<intermediate_results, execution_log, hashseed>>

\* The event loop runs the other coroutine: the running one has not started,
\* is suspended in an awaited capability call, or has returned.
Switch ==
    /\ other.pc \notin {"none", "done"}
    /\ pc \in {"validating", "awaiting", "done"}
    /\ other' = ThisRun
    /\ nodes' = other.nodes
    /\ edges' = other.edges
    /\ input_data' = other.input_data
    /\ pc' = other.pc
    /\ validation' = other.validation
    /\ pos' = other.pos
    /\ intermediate_results' = other.intermediate_results
    /\ execution_log' = other.execution_log
    /\ ret' = other.ret
    /\ dispatched' = other.dispatched
    /\ calls' = other.calls
    /\ searchOutcomes' = other.searchOutcomes
    /\ UNCHANGED hashseed

\* The chain with another threshold on its knowledge node (one that would let
\* the far document through, one that would keep the near one out, none),
\* another model identifier on its llm node, or both.
ChainVariants ==
    {<<KInput, k, l, KOutput>> :
        k \in {KKnowledge} \cup {KKnowledgeThreshold(t) : t \in {<<>>, <<10>>, <<95>>}},
        l \in {KLLM, KLLMModel("gpt-4o-mini")}} \ {ChainKinds}

PairPayloads == {[query |-> "what", session_id |-> "s"], [query |-> "why", session_id |-> "t"]}

InitPair ==
    /\ \E es \in SmallEdgeLists(NodesOf(ChainKinds)) :
          Submit(NodesOf(ChainKinds), es, [query |-> "what", session_id |-> "s"])
    /\ \/ \E payload \in PairPayloads :
             \E es \in SmallEdgeLists(NodesOf(ChainKinds)) :
                other = FreshRun(NodesOf(ChainKinds), es, payload)
       \/ \E kinds \in SmallNodeLists, payload \in PairPayloads :
             other = FreshRun(NodesOf(kinds), <<>>, payload)
       \/ \E kinds \in ChainVariants :
             other = FreshRun(NodesOf(kinds), edges, input_data)
    /\ hashseed \in SeedsOf(nodes) \cup SeedsOf(other.nodes)

NextPair == Validate \/ LookupFails \/ Dispatch \/ Switch

SpecPair == InitPair /\ [][NextPair]_vars

----------------------------------------------------------------------------
(* Properties of execute_workflow. *)

Returned == pc = "done"

Validated == pc # "validating"

\* The exception raised inside the try block of a run that has returned
\* without finishing its loop: by the check of line 198, by the lookup of
\* line 216 or by the component of the node at pos.
RaisedFailure ==
    IF ~ValidateWorkflow(nodes, edges).is_valid
    THEN Exc("ValueError", "Invalid workflow", ValidateWorkflow(nodes, edges).errors)
    ELSE IF CurrentId \notin NodeIdSet(nodes)
    THEN Exc("KeyError", "", <<CurrentId>>)
    ELSE ExecuteComponentOutcome(CurrentNode, input_data, intermediate_results).exc

LoopFinished == validation.is_valid /\ pos > Len(Order)

\* C1: execute_workflow never raises to its caller.  Once it has returned, it
\* has returned a result whose status is "failed" or "completed", never an
\* exception; the status is "failed" exactly when a failure was raised by
\* validation, by the node lookup or by a component (the run ended before
\* its loop finished), and then the error field, and the log's error field,
\* carry that failure's message; before it returns the caller has nothing.
C1_NeverRaises ==
    /\ ~Returned => ret = NotReturned
    /\ Returned =>
         /\ ret.status \in {"completed", "failed"}
         /\ (ret.status = "completed") <=> LoopFinished
         /\ (ret.status = "failed") <=> ~LoopFinished
         /\ ret.status = "failed" =>
              /\ ret.error = Str(RaisedFailure)
              /\ ret.execution_log.error = Str(RaisedFailure)

\* C1's case: a run the validator accepted has failed inside a component
\* with an exception that is no ValueError.
C1_Witness ==
    /\ Returned
    /\ ret.status = "failed"
    /\ validation.is_valid
    /\ ret.error.msg = "'NodeData' object has no attribute"

\* C2: when the node at position k of the order fails, the log holds exactly
\* the steps of the positions before k, in order, and none for the failing
\* node; the nodes handed to a component are a prefix of the order that ends
\* at k at the latest, and every capability call made was made, and answered,
\* for a node before k.
C2_StopsAtFailure ==
    (Returned /\ ret.status = "failed" /\ validation.is_valid) =>
        /\ pos <= Len(Order)
        /\ Len(execution_log) = pos - 1
        /\ \A i \in DOMAIN execution_log : execution_log[i].node_id = Order[i]
        /\ \A i \in DOMAIN execution_log : execution_log[i].node_id # Order[pos]
        /\ ret.execution_log.steps = execution_log
        /\ ret.execution_log.total_steps = pos - 1
        /\ Len(dispatched) \in {pos - 1, pos}
        /\ \A i \in DOMAIN dispatched : dispatched[i] = Order[i]
        /\ Len(searchOutcomes) = Len(calls)
        /\ \A i \in DOMAIN searchOutcomes : searchOutcomes[i].pos < pos

\* C2's case: a node failed after at least one step was logged and before the
\* last node of the order.
C2_Witness ==
    /\ Returned
    /\ ret.status = "failed"
    /\ validation.is_valid
    /\ Len(execution_log) >= 1
    /\ pos < Len(Order)

\* C3: when the validator reports the graph invalid, no node is dispatched,
\* no capability call is made, the log and the results stay empty, and the
\* run returns "failed" with the validator's error list in its error.
C3_NoPartialExecution ==
    (Validated /\ ~ValidateWorkflow(nodes, edges).is_valid) =>
        /\ Returned
        /\ ret.status = "failed"
        /\ ret.error.msg = "Invalid workflow"
        /\ ret.error.detail = ValidateWorkflow(nodes, edges).errors
        /\ ret.execution_log.steps = <<>>
        /\ dispatched = <<>>
        /\ calls = <<>>
        /\ execution_log = <<>>
        /\ intermediate_results = <<>>

\* C3's case: a graph with several validation errors was submitted and the
\* run has returned.
C3_Witness ==
    /\ Returned
    /\ Len(ValidateWorkflow(nodes, edges).errors) >= 2
    /\ ret.status = "failed"

\* C6, as claimed: in a graph the validator accepts, the execution order holds
\* only ids of submitted nodes, whatever the edges refer to.
C6_OrderHoldsOnlyNodeIds ==
    (Validated /\ validation.is_valid) =>
        \A i \in DOMAIN Order : Order[i] \in NodeIdSet(nodes)

\* The vector-store failures: no client, or collection.query raising.  A
\* missing collection is an empty answer by design.
SearchFailures == {"no_client", "query_error"}

\* C7, as claimed: a search that fails in the backend fails the run at the
\* knowledge node, and no node after it is dispatched.
C7_SearchFailureAborts ==
    \A i \in DOMAIN searchOutcomes :
       searchOutcomes[i].state \in SearchFailures =>
          /\ Len(dispatched) <= searchOutcomes[i].pos
          /\ Returned => (ret.status = "failed" /\ pos = searchOutcomes[i].pos)

\* C7, amended: a search that fails in the backend is answered with an empty
\* list.  The knowledge node's step is logged with a knowledge_base result
\* that holds the query and no results, the run does not fail at that node,
\* and a run that fails later fails at a later position; an exception raised
\* by a node still ends the run with nothing dispatched after it.
C7_SearchFailureIsSoft ==
    /\ \A i \in DOMAIN searchOutcomes :
          searchOutcomes[i].state \in SearchFailures =>
             LET k == searchOutcomes[i].pos
             IN  /\ Len(execution_log) >= k
                 /\ execution_log[k].node_id = Order[k]
                 /\ execution_log[k].result =
                       [query |-> calls[i].query, results |-> <<>>, type |-> "knowledge_base"]
                 /\ pos > k
    /\ (Returned /\ ret.status = "failed") => Len(dispatched) <= pos

\* C7's case: the search of a knowledge node failed in the backend and the
\* node after it was dispatched.
C7_Witness ==
    \E i \in DOMAIN searchOutcomes :
       /\ searchOutcomes[i].state = "query_error"
       /\ Len(dispatched) > searchOutcomes[i].pos
       /\ NodeMap(nodes, dispatched[searchOutcomes[i].pos + 1]).type = LLM_ENGINE

\* C10: for a graph with no input node the validator returns is_valid false,
\* a missing-components error that names "input", no error about the order
\* (the resolver is not asked), and an empty execution order.
C10_NoInputNode ==
    (Validated /\ \A i \in DOMAIN nodes : nodes[i].type # USER_QUERY) =>
        /\ ~validation.is_valid
        /\ \E i \in DOMAIN validation.errors :
              /\ validation.errors[i].msg = "Missing required components"
              /\ USER_QUERY \in SeqRange(validation.errors[i].args)
        /\ \A i \in DOMAIN validation.errors :
              validation.errors[i].msg #
                 "Invalid workflow connections - cannot determine execution order"
        /\ validation.execution_order = <<>>

\* C10's case: a validated graph that has an llm and an output node and no
\* input node.
C10_Witness ==
    /\ Validated
    /\ \A i \in DOMAIN nodes : nodes[i].type # USER_QUERY
    /\ \E i \in DOMAIN nodes : nodes[i].type = LLM_ENGINE
    /\ \E i \in DOMAIN nodes : nodes[i].type = OUTPUT
    /\ validation.errors # <<>>

\* The steps the driver may take: from validation (which resolves the order)
\* to the loop or to the return; in the loop from node to node, into an
\* awaited capability call and back; from the loop or the call to the return.
DriverSteps ==
    {<<"validating", "running">>, <<"validating", "done">>,
     <<"running", "running">>, <<"running", "awaiting">>, <<"running", "done">>,
     <<"awaiting", "running">>, <<"awaiting", "done">>}

\* C16: the driver moves only from validating (and ordering) to running to
\* returned, where it has returned "completed" or "failed", and a returned
\* run takes no further step.  A run that awaits a capability call leaves
\* the await only when the call returns: there is no timeout and no
\* cancellation.  When every capability call returns, every run returns.
C16_DriverStates ==
    /\ [][(<<pc, pc'>> \in DriverSteps)]_vars
    /\ [][pc # "done"]_vars
    /\ [][pc' = "done" => ret'.status \in {"completed", "failed"}]_vars
    /\ [][(pc = "awaiting" /\ pc' # "awaiting") =>
             Len(searchOutcomes') = Len(searchOutcomes) + 1]_vars
    /\ <>Returned

\* C16's case: a run has returned after it was suspended in a capability
\* call that returned.
C16_Witness ==
    /\ Returned
    /\ searchOutcomes # <<>>
    /\ ret.status = "failed"

\* C24, as claimed: an llm node that runs with the web-search flag set fails,
\* and the run fails at it, only if the text-generation call itself fails: a
\* run that has failed at such a node had issued a text-generation call for
\* it (a failed or unconfigured web search is not a cause of failure).
C24_WebSearchFailureIsSoft ==
    (/\ Returned
     /\ ret.status = "failed"
     /\ validation.is_valid
     /\ Len(dispatched) = pos
     /\ CurrentId \in NodeIdSet(nodes)
     /\ CurrentNode.type = LLM_ENGINE
     /\ CurrentNode.data.use_web_search = <<TRUE>>)
        => \E i \in DOMAIN calls : calls[i].capability = "generate_response"

\* Every edge of the submitted graph runs between two of its nodes.
EdgesReferenceNodes ==
    \A i \in DOMAIN edges :
       edges[i].source \in NodeIdSet(nodes) /\ edges[i].target \in NodeIdSet(nodes)

UniqueNodeIds == \A i, j \in DOMAIN nodes : i # j => nodes[i].id # nodes[j].id

\* C25: for a graph with unique node ids whose edges all run between its
\* nodes and which passes the coverage and cardinality rules, the resolver
\* returns (the validation has its result) and the execution order is a
\* permutation of the node ids: as long as the node list, and holding every
\* node id, so each exactly once; also when the edges hold cycles,
\* self-loops, duplicates or several edges into one node.
C25_OrderIsPermutation ==
    (Validated /\ UniqueNodeIds /\ EdgesReferenceNodes /\ StructuralErrors(nodes) = <<>>) =>
        /\ Len(validation.execution_order) = Len(nodes)
        /\ SeqRange(validation.execution_order) = NodeIdSet(nodes)
        /\ \A i, j \in DOMAIN validation.execution_order :
              i # j => validation.execution_order[i] # validation.execution_order[j]

\* C25's case: a validated graph whose first edge is listed twice and leads
\* from the input node to another node.
C25_Witness ==
    /\ Validated
    /\ StructuralErrors(nodes) = <<>>
    /\ EdgesReferenceNodes
    /\ Len(edges) = 2
    /\ edges[1] = edges[2]
    /\ edges[1].source = Head(InputNodes(nodes)).id
    /\ edges[1].source # edges[1].target

\* The capability calls issued and not yet returned.
Outstanding == Len(calls) - Len(searchOutcomes)

\* C19: within a run nodes execute one at a time.  At most one capability
\* call is outstanding, and exactly while the run is suspended in it; the
\* nodes are handed to their components in the order of the execution order,
\* and when the node at position k+1 has been handed over, the result of
\* every node up to position k is stored and its step is logged.
C19_OneAtATime ==
    /\ Len(searchOutcomes) <= Len(calls)
    /\ Outstanding <= 1
    /\ Outstanding = 1 <=> pc = "awaiting"
    /\ Len(dispatched) \in {Len(execution_log), Len(execution_log) + 1}
    /\ Len(intermediate_results) = Len(execution_log)
    /\ \A i \in DOMAIN dispatched : dispatched[i] = Order[i]
    /\ \A i \in DOMAIN execution_log :
          /\ execution_log[i].node_id = dispatched[i]
          /\ intermediate_results[i].key = dispatched[i]
          /\ intermediate_results[i].value = execution_log[i].result

\* C19's case: in a graph without edges the llm node was handed to its
\* component after the knowledge node's search had returned.
C19_Witness ==
    /\ edges = <<>>
    /\ Len(dispatched) >= 3
    /\ searchOutcomes # <<>>
    /\ NodeMap(nodes, dispatched[Len(dispatched)]).type = LLM_ENGINE
    /\ NodeMap(nodes, dispatched[Len(dispatched) - 1]).type = KNOWLEDGE_BASE

\* How many nodes of a type were submitted, and how many errors with a given
\* text the validator returned.
NodesOfType(type) == Cardinality({i \in DOMAIN nodes : nodes[i].type = type})

ErrorsWith(text) ==
    Cardinality({i \in DOMAIN validation.errors : validation.errors[i].msg = text})

\* C20: the validator returns exactly one "Only one User Query component is
\* allowed" error when the graph has more than one input node, and none
\* otherwise; exactly one "Only one Output component is allowed" error when
\* it has more than one output node, and none otherwise.  In either case the
\* graph is invalid, the resolver is not run (no error about the order) and
\* the execution order is empty.
C20_CardinalityErrors ==
    Validated =>
        /\ ErrorsWith("Only one User Query component is allowed") =
              (IF NodesOfType(USER_QUERY) > 1 THEN 1 ELSE 0)
        /\ ErrorsWith("Only one Output component is allowed") =
              (IF NodesOfType(OUTPUT) > 1 THEN 1 ELSE 0)
        /\ (NodesOfType(USER_QUERY) > 1 \/ NodesOfType(OUTPUT) > 1) =>
              /\ ~validation.is_valid
              /\ validation.execution_order = <<>>
              /\ ErrorsWith("Invalid workflow connections - cannot determine execution order") = 0

\* C20's case: a validated graph with one input, one llm and two output
\* nodes, whose only error is the one about the output nodes.
C20_Witness ==
    /\ Validated
    /\ NodesOfType(USER_QUERY) = 1
    /\ NodesOfType(LLM_ENGINE) = 1
    /\ NodesOfType(OUTPUT) = 2
    /\ Len(validation.errors) = 1

\* The reference resolver.  The adjacency list maps each source to its
\* targets in edge-listing order.  The traversal keeps the ids in the order
\* in which they are first dequeued: the id at place k is expanded by adding,
\* in adjacency order, those of its neighbours that are not yet in the list.
ReferenceAdjacency(es, id) ==
    LET out == SelectSeq(es, LAMBDA e : e.source = id)
    IN  [i \in DOMAIN out |-> out[i].target]

RECURSIVE FirstOccurrences(_, _)
FirstOccurrences(ids, seen) ==
    IF ids = <<>> THEN <<>>
    ELSE IF Head(ids) \in seen THEN FirstOccurrences(Tail(ids), seen)
    ELSE <<Head(ids)>> \o FirstOccurrences(Tail(ids), seen \cup {Head(ids)})

RECURSIVE ReferenceTraversal(_, _, _)
ReferenceTraversal(es, reached, k) ==
    IF k > Len(reached) THEN reached
    ELSE ReferenceTraversal(
            es,
            reached \o FirstOccurrences(ReferenceAdjacency(es, reached[k]), SeqRange(reached)),
            k + 1)

ReferenceOrder(ns, es) ==
    LET traversal == ReferenceTraversal(es, <<Head(InputNodes(ns)).id>>, 1)
    IN  traversal \o SelectSeq(NodeIdSeq(ns), LAMBDA id : id \notin SeqRange(traversal))

ResolverInvoked == Validated /\ StructuralErrors(nodes) = <<>>

\* C17, as claimed: on every graph on which the resolver is run, the
\* execution order is the order of the reference algorithm: breadth-first
\* from the single input node in first-dequeue order, neighbours enqueued in
\* edge-listing order, then the nodes not visited, in node-listing order.
C17_ReferenceOrder ==
    ResolverInvoked => validation.execution_order = ReferenceOrder(nodes, edges)

\* The submitted graph is a linear chain input -> knowledge -> llm -> output:
\* one node of each of the four types, one edge between each consecutive
\* pair and no other edge.
IsLinearChain ==
    /\ Len(nodes) = 4
    /\ \A t \in {USER_QUERY, KNOWLEDGE_BASE, LLM_ENGINE, OUTPUT} :
          \E i \in DOMAIN nodes : nodes[i].type = t
    /\ \A i, j \in DOMAIN nodes : i # j => nodes[i].id # nodes[j].id
    /\ Len(edges) = 3
    /\ SeqRange(edges) =
          {WorkflowEdge(IdOfType(nodes, USER_QUERY), IdOfType(nodes, KNOWLEDGE_BASE)),
           WorkflowEdge(IdOfType(nodes, KNOWLEDGE_BASE), IdOfType(nodes, LLM_ENGINE)),
           WorkflowEdge(IdOfType(nodes, LLM_ENGINE), IdOfType(nodes, OUTPUT))}

WellFormedConfig == \A i \in DOMAIN nodes : ValidateNodeConfig(nodes[i]) = <<>>

\* C13: for a linear chain input -> knowledge -> llm -> output with
\* well-formed configuration, the validator accepts the graph and the
\* execution order is the chain order, the ids of the input, knowledge, llm
\* and output nodes, in whatever order the nodes and the edges are listed.
C13_ChainOrder ==
    (Validated /\ IsLinearChain /\ WellFormedConfig) =>
        /\ validation.is_valid
        /\ validation.execution_order =
              <<IdOfType(nodes, USER_QUERY), IdOfType(nodes, KNOWLEDGE_BASE),
                IdOfType(nodes, LLM_ENGINE), IdOfType(nodes, OUTPUT)>>

\* C13's case: a validated chain whose output node is listed first and its
\* input node last, and whose edge out of the llm node is listed first.
C13_Witness ==
    /\ Validated
    /\ IsLinearChain
    /\ WellFormedConfig
    /\ nodes[1].type = OUTPUT
    /\ nodes[4].type = USER_QUERY
    /\ edges[1].source = IdOfType(nodes, LLM_ENGINE)

----------------------------------------------------------------------------
(* Properties of validate_workflow called on its own. *)

ValidateReturned == pc = "validated"

\* C11: whatever validate_workflow is given, it returns a WorkflowValidation
\* and raises nothing; is_valid is true exactly when the errors list is empty,
\* and warnings is empty.  When the validation raises inside (an element of
\* nodes or edges is not a schema object), the result has is_valid false and
\* the one error "Validation error" with the exception's text.
C11_ErrorsReturned ==
    ValidateReturned =>
        /\ DOMAIN validation = {"is_valid", "errors", "warnings", "execution_order"}
        /\ validation.is_valid <=> validation.errors = <<>>
        /\ validation.warnings = <<>>
        /\ ValidateTry(nodes, edges).kind = "raise" =>
              /\ ~validation.is_valid
              /\ Len(validation.errors) = 1
              /\ validation.errors[1].msg = "Validation error"
              /\ validation.errors[1].args = <<Str(ValidateTry(nodes, edges).exc)>>

\* C11's case: a graph with no structural error was validated with an edge
\* that is no schema object, so that the resolver raised.
C11_Witness ==
    /\ ValidateReturned
    /\ \A i \in DOMAIN nodes : HasAttr(nodes[i], "type")
    /\ \E i \in DOMAIN edges : ~HasAttr(edges[i], "source")
    /\ validation.errors # <<>>
    /\ validation.errors[1].msg = "Validation error"

\* The texts of the configuration errors.
ModelRequired == "LLM Engine node: Model is required"

CollectionRequired == "Knowledge Base node: Collection name is required"

TopKOutOfRange == "Knowledge Base node: TopK must be between 1 and 50"

ConfigTexts == {ModelRequired, CollectionRequired, TopKOutOfRange}

\* The configuration errors a node calls for.
ConfigFaults(node) ==
    {text \in ConfigTexts :
        \/ /\ text = ModelRequired
           /\ node.type = LLM_ENGINE
           /\ node.data.model \in {<<>>, <<"">>}
        \/ /\ text = CollectionRequired
           /\ node.type = KNOWLEDGE_BASE
           /\ node.data.collection \in {<<>>, <<"">>}
        \/ /\ text = TopKOutOfRange
           /\ node.type = KNOWLEDGE_BASE
           /\ node.data.topK # <<>>
           /\ (node.data.topK[1] < 1 \/ node.data.topK[1] > 50)}

\* The configuration errors among the errors returned, in their order.
ConfigErrors == SelectSeq(validation.errors, LAMBDA m : m.msg \in ConfigTexts)

\* The place in the node list of the node an error names.
PlaceOf(m) == CHOOSE i \in DOMAIN nodes : nodes[i].id = m.args[1]

\* C21: the validator returns a configuration error for a node exactly when
\* the node calls for it (an llm node without a model, a knowledge node
\* without a collection name, a knowledge node whose configured topK is below
\* 1 or above 50; a topK from 1 to 50, or none, adds no error), once for each
\* such node, whether or not the coverage and cardinality rules failed; the
\* configuration errors come after all other errors and in node-listing
\* order.
C21_ConfigErrors ==
    (ValidateReturned /\ ValidateTry(nodes, edges).kind = "return") =>
        /\ \A i \in DOMAIN nodes, text \in ConfigTexts :
              Cardinality({k \in DOMAIN ConfigErrors :
                             ConfigErrors[k] = Message(text, <<nodes[i].id>>)})
                 = (IF text \in ConfigFaults(nodes[i]) THEN 1 ELSE 0)
        /\ \A k \in DOMAIN ConfigErrors :
              \E i \in DOMAIN nodes : ConfigErrors[k].args = <<nodes[i].id>>
        /\ \A k, l \in DOMAIN ConfigErrors :
              k < l => PlaceOf(ConfigErrors[k]) <= PlaceOf(ConfigErrors[l])
        /\ \A k, l \in DOMAIN validation.errors :
              (k < l /\ validation.errors[k].msg \in ConfigTexts)
                 => validation.errors[l].msg \in ConfigTexts

\* C21's case: a graph with two output nodes and no input node, a knowledge
\* node whose topK is 51 and an llm node without a model: both structural
\* errors come first, then the topK error, then the model error.
C21_Witness ==
    /\ ValidateReturned
    /\ Len(validation.errors) = 4
    /\ validation.errors[1].msg = "Missing required components"
    /\ validation.errors[2].msg = "Only one Output component is allowed"
    /\ validation.errors[3].msg = TopKOutOfRange
    /\ validation.errors[4].msg = ModelRequired

\* C12, as claimed: validate_workflow is pure and idempotent.  A call on the
\* same nodes and edges returns the WorkflowValidation the call before it
\* returned (same is_valid, same errors in the same order, same
\* execution_order), and no call changes the nodes or the edges.
C12_ValidateIdempotent ==
    [][/\ nodes' = nodes
       /\ edges' = edges
       /\ (ValidateReturned /\ ValidateReturned') => validation' = validation]_vars

----------------------------------------------------------------------------
(* Properties of one component call. *)

\* The node the component is called for, the results the context held before
\* the call, and the result the call stored.
TheNode == nodes[1]

PriorResults ==
    Values(SelectSeq(intermediate_results, LAMBDA kv : kv.key # TheNode.id))

ComponentStored == \E i \in DOMAIN intermediate_results : intermediate_results[i].key = TheNode.id

StoredResult ==
    (CHOOSE kv \in SeqRange(intermediate_results) : kv.key = TheNode.id).value

IsTagged(i, tag) == "type" \in DOMAIN PriorResults[i] /\ PriorResults[i].type = tag

PayloadHasQuery == "query" \in DOMAIN input_data /\ input_data.query # ""

NoQueryAnywhere ==
    /\ ~PayloadHasQuery
    /\ \A i \in DOMAIN PriorResults : ~IsTagged(i, "user_query")

ComponentCalled == Len(dispatched) = Len(Order)

\* C8: an llm node dispatched with no user_query result and no non-empty
\* query in the payload fails with the missing-query error: the run returns
\* "failed" with that message, and its log holds only the steps of the nodes
\* before the llm node, one per earlier position; no capability call is made.
C8_LLMWithoutQuery ==
    (TheNode.type = LLM_ENGINE /\ NoQueryAnywhere /\ ComponentCalled) =>
        /\ Returned
        /\ ret.status = "failed"
        /\ ret.error = [msg |-> "No query found for LLM processing", detail |-> <<>>]
        /\ ret.execution_log.steps = execution_log
        /\ Len(execution_log) = Len(Order) - 1
        /\ \A i \in DOMAIN execution_log :
              /\ execution_log[i].node_id = Order[i]
              /\ execution_log[i].result = PriorResults[i]
        /\ ~ComponentStored
        /\ calls = <<>>

\* C8's case: an llm node was dispatched after a step that left no query.
C8_Witness ==
    /\ TheNode.type = LLM_ENGINE
    /\ NoQueryAnywhere
    /\ ComponentCalled
    /\ Len(execution_log) >= 1

\* C9: a knowledge node dispatched with no user_query result and no
\* non-empty query in the payload returns a knowledge_base result with status
\* "skipped" and no results; nothing is raised and no search call is made.
C9_KnowledgeSkips ==
    (TheNode.type = KNOWLEDGE_BASE /\ NoQueryAnywhere /\ ComponentCalled) =>
        /\ calls = <<>>
        /\ pc # "awaiting"
        /\ ret.status # "failed"
        /\ ComponentStored
        /\ StoredResult.type = "knowledge_base"
        /\ StoredResult.status = "skipped"
        /\ StoredResult.results = <<>>
        /\ execution_log[Len(execution_log)].result = StoredResult

\* C9's case: a knowledge node with a collection was dispatched with no query
\* anywhere.
C9_Witness ==
    /\ TheNode.type = KNOWLEDGE_BASE
    /\ TheNode.data.collection # <<>>
    /\ NoQueryAnywhere
    /\ ComponentCalled

\* C23: the input node fails when the payload's query is absent or empty:
\* the run returns "failed" with the error "No query provided" and nothing
\* is stored for the node.  Otherwise it returns, and the driver stores, a
\* result tagged user_query whose query is the payload's query unchanged.
\* In both cases it makes no capability call and is not suspended.
C23_InputNode ==
    (TheNode.type = USER_QUERY /\ ComponentCalled) =>
        /\ calls = <<>>
        /\ pc = "done"
        /\ IF PayloadHasQuery
           THEN /\ ComponentStored
                /\ StoredResult = [query |-> input_data.query, type |-> "user_query"]
                /\ execution_log[Len(execution_log)].result = StoredResult
                /\ ret.status = "completed"
           ELSE /\ ~ComponentStored
                /\ ret.status = "failed"
                /\ ret.error = [msg |-> "No query provided", detail |-> <<>>]
                /\ Len(execution_log) = Len(Order) - 1

\* C23's case: the input node was called with a payload that has no query
\* key, on a context that already holds a user_query result.
C23_Witness ==
    /\ TheNode.type = USER_QUERY
    /\ ComponentCalled
    /\ "query" \notin DOMAIN input_data
    /\ \E i \in DOMAIN PriorResults : IsTagged(i, "user_query")

\* The llm_response the output node consumes: the first one stored.
ConsumedResponse ==
    PriorResults[CHOOSE i \in DOMAIN PriorResults :
                    /\ IsTagged(i, "llm_response")
                    /\ \A j \in DOMAIN PriorResults : j < i => ~IsTagged(j, "llm_response")]

\* C14: an output node that returns a result returns, when its format is
\* "json", the response together with a metadata field that holds the query
\* and context_used of the llm_response it consumed and the format "json";
\* with any other format, None included, it returns the response and no
\* metadata field.
C14_OutputFormat ==
    (TheNode.type = OUTPUT /\ ComponentStored) =>
        /\ StoredResult.response = ConsumedResponse.response
        /\ StoredResult.type = "output"
        /\ IF TheNode.data.format = <<"json">>
           THEN /\ DOMAIN StoredResult = {"response", "metadata", "type"}
                /\ StoredResult.metadata =
                      [query |-> ConsumedResponse.query,
                       context_used |-> ConsumedResponse.context_used,
                       format |-> "json"]
           ELSE DOMAIN StoredResult = {"response", "type"}

\* C14's case: an output node with format "json" returned its result from an
\* llm_response that used context.
C14_Witness ==
    /\ TheNode.type = OUTPUT
    /\ TheNode.data.format = <<"json">>
    /\ ComponentStored
    /\ StoredResult.metadata.context_used

----------------------------------------------------------------------------
(* Properties of execute_workflow on well-formed submissions. *)

RecognizedTypes == {USER_QUERY, KNOWLEDGE_BASE, LLM_ENGINE, OUTPUT}

\* The graph was accepted, its node ids are unique, its node types are the
\* four the engine knows, its edges run between its nodes, and the payload
\* has a non-empty query.
WellFormedSubmission ==
    /\ validation.is_valid
    /\ UniqueNodeIds
    /\ \A i \in DOMAIN nodes : nodes[i].type \in RecognizedTypes
    /\ EdgesReferenceNodes
    /\ PayloadHasQuery

\* The place of the output node in the execution order, and whether an llm
\* node stands before it.
OutputPlace == CHOOSE k \in DOMAIN Order : NodeMap(nodes, Order[k]).type = OUTPUT

LLMPrecedesOutput ==
    \E k \in DOMAIN Order : k < OutputPlace /\ NodeMap(nodes, Order[k]).type = LLM_ENGINE

\* C26, as claimed: on a well-formed submission, with a text generation that
\* succeeds whenever it is called, execute_workflow returns "completed"
\* exactly when an llm node stands before the output node in the execution
\* order; otherwise it returns "failed" at the output node with the error
\* "No LLM response found for output".
C26_CompletedIffLLMFirst ==
    (Returned /\ WellFormedSubmission) =>
        IF LLMPrecedesOutput
        THEN ret.status = "completed"
        ELSE /\ ret.status = "failed"
             /\ pos = OutputPlace
             /\ ret.error = [msg |-> "No LLM response found for output", detail |-> <<>>]

StoredFor(results, key) == (CHOOSE kv \in SeqRange(results) : kv.key = key).value

StructuralErrorCount ==
    ErrorsWith("Missing required components")
        + ErrorsWith("Only one User Query component is allowed")
        + ErrorsWith("Only one Output component is allowed")

\* C30: when the validator runs the resolver (it has emitted no coverage and
\* no cardinality error), the graph has an input node and the order the
\* resolver returns is not empty, so the error "Invalid workflow connections
\* - cannot determine execution order" is never emitted.  The execution
\* order is empty exactly when a coverage or cardinality error was emitted;
\* it is not empty when the graph is invalid by configuration errors only.
C30_ResolverNeverEmpty ==
    Validated =>
        /\ ErrorsWith("Invalid workflow connections - cannot determine execution order") = 0
        /\ StructuralErrorCount = 0 =>
              /\ NodesOfType(USER_QUERY) >= 1
              /\ validation.execution_order # <<>>
        /\ validation.execution_order = <<>> <=> StructuralErrorCount > 0
        /\ (/\ ~validation.is_valid
            /\ \A i \in DOMAIN validation.errors : validation.errors[i].msg \in ConfigTexts)
              => validation.execution_order # <<>>

\* C30's case: a graph of four nodes that is invalid only because its llm
\* node has no model: the order was resolved and is returned with the error.
C30_Witness ==
    /\ Validated
    /\ ~validation.is_valid
    /\ Len(validation.errors) = 1
    /\ validation.errors[1].msg = ModelRequired
    /\ Len(validation.execution_order) = Len(nodes)
    /\ Len(nodes) = 4

----------------------------------------------------------------------------
(* Properties of two execute_workflow calls on one event loop. *)

\* What a call returns when it runs with no other call: the loop of lines
\* 215-228 from position k on, with the vector searches answered, in order,
\* by the given backends.
RECURSIVE RunAloneFrom(_, _, _, _, _, _, _)
RunAloneFrom(ns, order, payload, answers, k, results, log) ==
    IF k > Len(order) THEN CompletedResult(results, log)
    ELSE IF order[k] \notin NodeIdSet(ns)
    THEN HandleException(Exc("KeyError", "", <<order[k]>>), log)
    ELSE LET node == NodeMap(ns, order[k])
             out == ExecuteComponentOutcome(node, payload, results)
             answered == KnowledgeBaseResult(out.call,
                                             VectorSearch(Head(answers), out.call).value)
             result == IF out.kind = "return" THEN out.value ELSE answered
             step == [node_id |-> order[k], node_type |-> node.type, result |-> result]
         IN  IF out.kind = "raise" THEN HandleException(out.exc, log)
             ELSE IF out.kind = "call" /\ answers = <<>> THEN NotReturned
             ELSE RunAloneFrom(ns, order, payload,
                               IF out.kind = "call" THEN Tail(answers) ELSE answers,
                               k + 1, DictSet(results, order[k], result),
                               Append(log, step))

RunAlone(ns, es, payload, answers) ==
    LET v == ValidateWorkflow(ns, es)
    IN  IF ~v.is_valid
        THEN HandleException(Exc("ValueError", "Invalid workflow", v.errors), <<>>)
        ELSE RunAloneFrom(ns, v.execution_order, payload, answers, 1, <<>>, <<>>)

\* The backends that answered the searches of a call.
AnswersOf(run) ==
    [i \in DOMAIN run.searchOutcomes |->
        Backend(run.searchOutcomes[i].state, run.searchOutcomes[i].hits)]

BothRuns == {ThisRun, other}

\* C15: two execute_workflow calls that interleave at their awaited
\* capability calls are independent.  A call that has not started has an
\* empty context; the steps and results a call holds are those of its own
\* nodes, and the queries in them are the query of its own payload; and the
\* result a call returns is the result it returns when it runs alone on the
\* same nodes, edges and payload with the same answers to its searches.
C15_RunsIndependent ==
    \A run \in BothRuns :
       /\ run.pc = "validating" =>
             run.intermediate_results = <<>> /\ run.execution_log = <<>>
       /\ Len(run.execution_log) = Len(run.intermediate_results)
       /\ \A i \in DOMAIN run.execution_log :
             /\ run.execution_log[i].node_id \in NodeIdSet(run.nodes)
             /\ run.intermediate_results[i].key = run.execution_log[i].node_id
             /\ run.intermediate_results[i].value = run.execution_log[i].result
             /\ \/ "status" \in DOMAIN run.execution_log[i].result
                \/ run.execution_log[i].result.query = run.input_data.query
       /\ run.pc = "done" =>
             run.ret = RunAlone(run.nodes, run.edges, run.input_data, AnswersOf(run))

\* Both calls have returned; they were given the same nodes and the same
\* payload, their edge lists differ and resolve to the same execution order,
\* and the vector store answered the i-th search of the one as it answered
\* the i-th search of the other.
SameButForEdges ==
    /\ pc = "done"
    /\ other.pc = "done"
    /\ nodes = other.nodes
    /\ input_data = other.input_data
    /\ edges # other.edges
    /\ validation.execution_order = other.validation.execution_order
    /\ \A i \in DOMAIN searchOutcomes \cap DOMAIN other.searchOutcomes :
          AnswersOf(ThisRun)[i] = AnswersOf(other)[i]

\* C18: edges affect a run only through the execution order.  Two calls with
\* the same nodes and payload whose different edge lists resolve to the same
\* order return, given the same search answers, the same node results, the
\* same log steps and the same result.
C18_EdgesOnlyOrder ==
    SameButForEdges =>
        /\ intermediate_results = other.intermediate_results
        /\ execution_log = other.execution_log
        /\ ret = other.ret

\* C18's case: two such calls, one whose knowledge node has the input node
\* as its declared predecessor and one whose knowledge node has none, have
\* both run the input node and the knowledge node with its search.
C18_Witness ==
    /\ SameButForEdges
    /\ validation.is_valid
    /\ Len(execution_log) >= 2
    /\ searchOutcomes # <<>>
    /\ Len(edges) + Len(other.edges) = 1

\* A node without the fields the engine ignores.
WithoutIgnoredFields(node) ==
    [node EXCEPT !.data = [node.data EXCEPT !.threshold = <<>>, !.model = <<>>]]

\* Both calls have returned; they were given the same edges and payload and
\* node lists that differ only in the threshold configured on a knowledge
\* node or in the model identifier configured on an llm node, and the vector
\* store answered the i-th search of the one as it answered the i-th search
\* of the other.
SameButForIgnoredFields ==
    /\ pc = "done"
    /\ other.pc = "done"
    /\ edges = other.edges
    /\ input_data = other.input_data
    /\ nodes # other.nodes
    /\ Len(nodes) = Len(other.nodes)
    /\ \A i \in DOMAIN nodes :
          /\ WithoutIgnoredFields(nodes[i]) = WithoutIgnoredFields(other.nodes[i])
          /\ nodes[i].data.model # other.nodes[i].data.model =>
                /\ nodes[i].type = LLM_ENGINE
                /\ TruthyStr(nodes[i].data.model)
                /\ TruthyStr(other.nodes[i].data.model)
          /\ nodes[i].data.threshold # other.nodes[i].data.threshold =>
                nodes[i].type = KNOWLEDGE_BASE
    /\ \A i \in DOMAIN searchOutcomes \cap DOMAIN other.searchOutcomes :
          AnswersOf(ThisRun)[i] = AnswersOf(other)[i]

\* C22: the capability calls of a run do not depend on the node fields the
\* engine ignores.  Two calls that differ only in the threshold of a
\* knowledge node or in the model identifier of an llm node issue the same
\* capability calls, every vector search with threshold 0.3 and every text
\* generation (also the one an llm node of either call would issue for the
\* payload's query) with the engine's fixed model, and, given the same
\* answers, hold the same results, the same log and return the same result.
C22_IgnoredFields ==
    SameButForIgnoredFields =>
        /\ calls = other.calls
        /\ \A i \in DOMAIN calls :
              /\ calls[i].capability = "vector_search" => calls[i].threshold = 30
              /\ calls[i].capability = "generate_response" =>
                    calls[i].model = "gpt-5-nano-2025-08-07"
        /\ \A i \in DOMAIN nodes :
              nodes[i].type = LLM_ENGINE =>
                 /\ GenerateCall(nodes[i], input_data, <<>>)
                       = GenerateCall(other.nodes[i], input_data, <<>>)
                 /\ GenerateCall(nodes[i], input_data, <<>>).model = "gpt-5-nano-2025-08-07"
        /\ intermediate_results = other.intermediate_results
        /\ execution_log = other.execution_log
        /\ ret = other.ret

\* C22's case: two such calls whose knowledge nodes carry different
\* thresholds and whose llm nodes carry different model identifiers have
\* both searched a vector store that holds a near and a far document, and
\* both have gone on to their llm node.
C22_Witness ==
    /\ SameButForIgnoredFields
    /\ \E i \in DOMAIN nodes : nodes[i].data.threshold # other.nodes[i].data.threshold
    /\ \E i \in DOMAIN nodes : nodes[i].data.model # other.nodes[i].data.model
    /\ searchOutcomes # <<>>
    /\ Len(searchOutcomes[1].hits) = 2
    /\ Len(dispatched) >= 3
    /\ Len(other.dispatched) >= 3

\* C15's case: a call has returned after a vector search of its own while
\* the other call, with another query, is suspended in its vector search:
\* the other call ran while this one's search was outstanding.
C15_Witness ==
    /\ pc = "done"
    /\ searchOutcomes # <<>>
    /\ other.pc = "awaiting"
    /\ other.dispatched # <<>>
    /\ other.input_data.query # input_data.query

============================================================================
